---- MODULE Spec2Model ----
(***************************************************************************)
(* Motion detector with a CoAP resource server (coap-motion-detector).     *)
(*                                                                         *)
(* Two execution contexts share the four resource objects:                 *)
(*   - the detector thread running MotionDetector.loop, which calls        *)
(*     on_rise / on_fall (motion_detection/detector.py, coap/server.py);   *)
(*   - the asyncio reactor serving GET / observe / PUT (coap/server.py).   *)
(* Time is counted in ticks of 1/TicksPerSec second.                       *)
(***************************************************************************)
EXTENDS Integers, Sequences, FiniteSets, TLC

\* ------------------------------------------------------------------ bounds
MaxTime == 4          \* ticks the clock advances past Epoch in SpecDet
RunTime == 1          \* ticks the clock advances past Epoch in Spec
MaxCooldown == 2      \* cooldown_sec is drawn from 0..MaxCooldown ticks
MaxQuiet == 2         \* quiet_sec is drawn from 0..MaxQuiet ticks
MaxRises == 2         \* rising edges followed in one run
MaxLen == 3           \* bytes in a PUT payload
MaxSeq == 3           \* value changes of class followed in one run
NumPeers == 1         \* remote peers that may observe

\* strftime("%Y-%m-%d_%H-%M-%S") has one-second resolution
TicksPerSec == 2

\* time.time() is seconds since 1970: far past any configured interval
Epoch == MaxCooldown + MaxQuiet + 1

VARIABLES
    clock,                 \* wall clock, read by time.time() / datetime.now()
    cooldown, quiet,       \* MotionDetector.cooldown / .quiet
    detPc,                 \* position of the detector thread
    motion_on,             \* MotionDetector.motion_on
    last_motion_seen_ts,   \* MotionDetector.last_motion_seen_ts
    last_rise_ts,          \* MotionDetector.last_rise_ts
    now, motion_now,       \* locals of the current loop iteration
    motion, ts, jpeg,      \* MotionResource.motion, LastDetectionResource.ts, ImageResource.jpeg
    label,                 \* ClassResource.label
    seq,                   \* per observable resource: updated_state() calls so far
    ver,                   \* history: per observable resource, value changes so far
    server,                \* "init" until create_server_context returns, then "listening"
    loopAwake,             \* the reactor is running callbacks (FALSE: blocked in select)
    obsv,                  \* per resource and peer: the observation and what it last received
    watched,               \* the resource the peers of this run observe
    riseLog,               \* history: one record per on_rise call
    seenLog,               \* history: time of the latest frame with motion_now
    cliPc,                 \* position of the classifier's main()
    net,                   \* responses on the observation in flight to the classifier
    tasks,                 \* the handle_notification tasks created by cb, in creation order
    cliBase,               \* r of main(): the initial response on lastdetection
    labelFrom              \* history: the snapshot behind the classifier's latest PUT

vars == <<clock, cooldown, quiet, detPc, motion_on, last_motion_seen_ts,
          last_rise_ts, now, motion_now, motion, ts, jpeg, label, seq, ver,
          server, loopAwake, obsv, watched, riseLog, seenLog,
          cliPc, net, tasks, cliBase, labelFrom>>

detVars == <<motion_on, last_motion_seen_ts, last_rise_ts, now, motion_now>>
cfgVars == <<cooldown, quiet, watched>>
logVars == <<riseLog, seenLog>>
cliVars == <<cliPc, net, tasks, cliBase, labelFrom>>

ObsRes == {"motion", "lastdetection", "class"}
Res == ObsRes \cup {"image"}
Peers == 1..NumPeers
\* the classifier (coap-motion-classifier) is one more remote peer
Client == 0
AllPeers == Peers \cup {Client}

\* datetime.now().strftime("%Y-%m-%d_%H-%M-%S").encode(): the tick truncated to its second
FormatTs(t) == <<t \div TicksPerSec>>

\* b"" of LastDetectionResource.__init__, ImageResource.__init__, ClassResource.__init__
EmptyTs == <<>>
EmptyJpeg == 0
EmptyLabel == <<>>

\* ---------------------------------------------------------------- payloads
\* a payload is a sequence of bytes: the space that bytes.strip() removes, a
\* letter, and a byte that occurs in no UTF-8 text
Space == " "
BadByte == "xFF"
WhiteSpace == {Space}
Bytes == WhiteSpace \cup {"p", BadByte}

RECURSIVE SeqsUpTo(_)
SeqsUpTo(n) ==
    IF n = 0 THEN {<<>>}
    ELSE LET shorter == SeqsUpTo(n - 1)
         IN  shorter \cup {Append(q, b) : q \in {x \in shorter : Len(x) = n - 1}, b \in Bytes}

Payloads == SeqsUpTo(MaxLen)
\* the payloads sent while the detector runs: a label, the same label padded, nothing
RunPayloads == {<<>>, <<"p">>, <<"p", Space>>}

RECURSIVE LStrip(_)
LStrip(p) ==
    IF p = <<>> THEN <<>>
    ELSE IF Head(p) \in WhiteSpace THEN LStrip(Tail(p)) ELSE p

RECURSIVE RStrip(_)
RStrip(p) ==
    IF p = <<>> THEN <<>>
    ELSE IF p[Len(p)] \in WhiteSpace THEN RStrip(SubSeq(p, 1, Len(p) - 1)) ELSE p

\* mutant: only leading whitespace is removed
StripLeftOnly(p) == LStrip(p)

\* (request.payload or b"").strip()
Strip(p) == RStrip(LStrip(p))

\* ------------------------------------------------------------------- state
NoResp == [val |-> "none", seq |-> -1]
NotObserving == [on |-> FALSE, pend |-> FALSE, got |-> NoResp]

\* the objects as start_server and MotionDetector.__init__ construct them
Start ==
    /\ clock = Epoch
    /\ detPc = "unstarted"
    /\ motion_on = FALSE
    /\ last_motion_seen_ts = 0
    /\ last_rise_ts = 0
    /\ now = 0
    /\ motion_now = FALSE
    /\ motion = "false"
    /\ ts = EmptyTs
    /\ jpeg = EmptyJpeg
    /\ label = EmptyLabel
    /\ seq = [r \in ObsRes |-> 0]
    /\ ver = [r \in ObsRes |-> 0]
    /\ server = "init"
    /\ loopAwake = TRUE
    /\ obsv = [r \in ObsRes |-> [s \in AllPeers |-> NotObserving]]
    /\ riseLog = <<>>
    /\ seenLog = 0
    /\ cliPc = "start"
    /\ net = <<>>
    /\ tasks = <<>>
    /\ cliBase = NoResp
    /\ labelFrom = 0

\* every configuration of the two intervals; no peer observes anything but lastdetection
InitDet ==
    /\ Start
    /\ cooldown \in 0..MaxCooldown
    /\ quiet \in 0..MaxQuiet
    /\ watched = "lastdetection"

\* one configuration, both intervals of one tick; the peers observe one of the resources
\* (each ObservableResource keeps its own observations: they share no state)
Init ==
    /\ Start
    /\ cooldown = TicksPerSec - 1
    /\ quiet = TicksPerSec - 1
    /\ watched \in ObsRes

InitClass ==
    /\ Start
    /\ cooldown = TicksPerSec - 1
    /\ quiet = TicksPerSec - 1
    /\ watched = "class"

\* render_get of each resource: the payload it returns
ValueOf(r) ==
    CASE r = "motion" -> motion
      [] r = "lastdetection" -> ts
      [] r = "image" -> jpeg
      [] r = "class" -> label

\* what a response on r carries: the value, and for an observable resource its sequence
Render(r) ==
    [val |-> ValueOf(r), seq |-> IF r \in ObsRes THEN seq[r] ELSE 0]

\* the passage of time between any two steps
TickUpTo(horizon) ==
    /\ clock < Epoch + horizon
    /\ clock' = clock + 1
    /\ UNCHANGED <<cfgVars, cliVars, detPc, detVars, motion, ts, jpeg, label, seq, ver,
                   server, loopAwake, obsv, logVars>>

Tick == TickUpTo(MaxTime)
TickRun == TickUpTo(RunTime)

\* start_server: create_server_context, then MotionDetectorThread is started
StartServer ==
    /\ server = "init"
    /\ server' = "listening"
    /\ detPc' = "open"
    /\ UNCHANGED <<clock, cfgVars, cliVars, detVars, motion, ts, jpeg, label, seq, ver,
                   loopAwake, obsv, logVars>>

\* history: a write of new over old counts when it replaces the value
Written(r, old, new) ==
    ver' = [ver EXCEPT ![r] = IF old = new THEN @ ELSE @ + 1]

\* mutant: only the first observation of r is triggered
UpdatedStateFirstOnly(r) ==
    /\ seq' = [seq EXCEPT ![r] = @ + 1]
    /\ obsv' = [obsv EXCEPT ![r] =
                  [s \in AllPeers |->
                     IF obsv[r][s].on /\ \A t \in AllPeers : obsv[r][t].on => s <= t
                       THEN [obsv[r][s] EXCEPT !.pend = TRUE]
                       ELSE obsv[r][s]]]

\* ObservableResource.updated_state(): every observation of r is triggered
UpdatedState(r) ==
    /\ seq' = [seq EXCEPT ![r] = @ + 1]
    /\ obsv' = [obsv EXCEPT ![r] =
                  [s \in AllPeers |-> IF obsv[r][s].on THEN [obsv[r][s] EXCEPT !.pend = TRUE]
                                   ELSE obsv[r][s]]]

\* mutant: the comparison with the current value is dropped
DiffersAlways(old, new) == TRUE

\* if self.motion != val / if new != self.ts / if new != self.label
Differs(old, new) == old # new

\* ------------------------------------------------------- detector thread
\* cap = cv2.VideoCapture(...); if not cap.isOpened(): raise RuntimeError
DetOpen ==
    /\ detPc = "open"
    /\ \E opened \in BOOLEAN :
         detPc' = IF opened THEN "read" ELSE "open_failed"
    /\ UNCHANGED <<clock, cfgVars, cliVars, detVars, motion, ts, jpeg, label, seq, ver,
                   server, loopAwake, obsv, logVars>>

\* mutant: a failed read is skipped and the loop goes on
AfterReadFailContinue == "sleep"

\* where the loop goes when cap.read() fails: break, finally: cap.release()
AfterReadFail == "done"

\* ok, frame = cap.read(); if not ok: break
DetReadFail ==
    /\ detPc = "read"
    /\ detPc' = AfterReadFail
    /\ UNCHANGED <<clock, cfgVars, cliVars, detVars, motion, ts, jpeg, label, seq, ver,
                   server, loopAwake, obsv, logVars>>

\* mutant: motion frames never refresh the quiet timer
SeenAfterNever(m, t) == last_motion_seen_ts

\* mutant: motion frames refresh the quiet timer only while QUIET
SeenAfterOnlyWhenQuiet(m, t) ==
    IF m /\ ~motion_on THEN t ELSE last_motion_seen_ts

\* if motion_now: self.last_motion_seen_ts = now
SeenAfter(m, t) ==
    IF m THEN t ELSE last_motion_seen_ts

\* mutant: the state is not consulted
RisingEdgeNoState(m, t) ==
    m /\ (t - last_rise_ts >= cooldown)

\* mutant: the cooldown guard is dropped
RisingEdgeNoCooldown(m, t) ==
    ~motion_on /\ m

\* not self.motion_on and motion_now and (now - self.last_rise_ts >= self.cooldown)
RisingEdge(m, t) ==
    ~motion_on /\ m /\ (t - last_rise_ts >= cooldown)

\* one frame read, motion_now and now computed, rising edge decided
DetFrame ==
    /\ detPc = "read"
    /\ \E m \in BOOLEAN :
         /\ RisingEdge(m, clock) => Len(riseLog) < MaxRises
         /\ now' = clock
         /\ motion_now' = m
         /\ last_motion_seen_ts' = SeenAfter(m, clock)
         /\ seenLog' = IF m THEN clock ELSE seenLog
         /\ IF RisingEdge(m, clock)
              THEN /\ motion_on' = TRUE
                   /\ last_rise_ts' = clock
                   /\ riseLog' = Append(riseLog, [at |-> clock, ts |-> EmptyTs])
                   /\ detPc' = "on_rise"
              ELSE /\ UNCHANGED <<motion_on, last_rise_ts, riseLog>>
                   /\ detPc' = "fall_check"
    /\ UNCHANGED <<clock, cfgVars, cliVars, motion, ts, jpeg, label, seq, ver,
                   server, loopAwake, obsv>>

\* on_rise: cv2.imencode(...); if ok: image_res.set_jpeg(buf.tobytes())
\* (the crop of a region of area > min_contour_area is never None or empty)
RiseSetJpeg ==
    /\ detPc = "on_rise"
    /\ \E ok \in BOOLEAN :
         jpeg' = IF ok THEN Len(riseLog) ELSE jpeg
    /\ detPc' = "set_now"
    /\ UNCHANGED <<clock, cfgVars, cliVars, detVars, motion, ts, label, seq, ver,
                   server, loopAwake, obsv, logVars>>

\* on_rise: ts = datetime.now().strftime(...); last_res.set_now(ts), up to the write of self.ts
RiseSetNow ==
    /\ detPc = "set_now"
    /\ riseLog' = [riseLog EXCEPT ![Len(riseLog)].ts = FormatTs(clock)]
    /\ IF Differs(ts, FormatTs(clock))
         THEN ts' = FormatTs(clock) /\ detPc' = "notify_last"
         ELSE ts' = ts /\ detPc' = "set_motion"
    /\ Written("lastdetection", ts, FormatTs(clock))
    /\ UNCHANGED <<clock, cfgVars, cliVars, detVars, motion, jpeg, label, seq,
                   server, loopAwake, obsv, seenLog>>

\* set_now: self.updated_state(), called on the detector thread
RiseNotifyLast ==
    /\ detPc = "notify_last"
    /\ UpdatedState("lastdetection")
    /\ detPc' = "set_motion"
    /\ UNCHANGED <<clock, cfgVars, cliVars, detVars, motion, ts, jpeg, label, ver,
                   server, loopAwake, logVars>>

\* on_rise: motion_res.set(b"true"), up to the write of self.motion
RiseSetMotion ==
    /\ detPc = "set_motion"
    /\ IF Differs(motion, "true")
         THEN motion' = "true" /\ detPc' = "notify_rise"
         ELSE motion' = motion /\ detPc' = "fall_check"
    /\ Written("motion", motion, "true")
    /\ UNCHANGED <<clock, cfgVars, cliVars, detVars, ts, jpeg, label, seq,
                   server, loopAwake, obsv, logVars>>

\* set: self.updated_state(), called on the detector thread
RiseNotifyMotion ==
    /\ detPc = "notify_rise"
    /\ UpdatedState("motion")
    /\ detPc' = "fall_check"
    /\ UNCHANGED <<clock, cfgVars, cliVars, detVars, motion, ts, jpeg, label, ver,
                   server, loopAwake, logVars>>

\* mutant: the state is not consulted
FallingEdgeNoState ==
    now - last_motion_seen_ts >= quiet

\* self.motion_on and (now - self.last_motion_seen_ts >= self.quiet)
FallingEdge ==
    motion_on /\ (now - last_motion_seen_ts >= quiet)

DetFallCheck ==
    /\ detPc = "fall_check"
    /\ IF FallingEdge
         THEN motion_on' = FALSE /\ detPc' = "on_fall"
         ELSE motion_on' = motion_on /\ detPc' = "sleep"
    /\ UNCHANGED <<clock, cfgVars, cliVars, last_motion_seen_ts, last_rise_ts, now, motion_now,
                   motion, ts, jpeg, label, seq, ver, server, loopAwake, obsv,
                   logVars>>

\* on_fall: motion_res.set(b"false"), up to the write of self.motion
FallSetMotion ==
    /\ detPc = "on_fall"
    /\ IF Differs(motion, "false")
         THEN motion' = "false" /\ detPc' = "notify_fall"
         ELSE motion' = motion /\ detPc' = "sleep"
    /\ Written("motion", motion, "false")
    /\ UNCHANGED <<clock, cfgVars, cliVars, detVars, ts, jpeg, label, seq,
                   server, loopAwake, obsv, logVars>>

\* set: self.updated_state(), called on the detector thread
FallNotifyMotion ==
    /\ detPc = "notify_fall"
    /\ UpdatedState("motion")
    /\ detPc' = "sleep"
    /\ UNCHANGED <<clock, cfgVars, cliVars, detVars, motion, ts, jpeg, label, ver,
                   server, loopAwake, logVars>>

\* time.sleep(self.sleep), then the next iteration
DetSleep ==
    /\ detPc = "sleep"
    /\ detPc' = "read"
    /\ UNCHANGED <<clock, cfgVars, cliVars, detVars, motion, ts, jpeg, label, seq, ver,
                   server, loopAwake, obsv, logVars>>

Detector ==
    \/ DetOpen \/ DetReadFail \/ DetFrame
    \/ RiseSetJpeg \/ RiseSetNow \/ RiseNotifyLast \/ RiseSetMotion \/ RiseNotifyMotion
    \/ DetFallCheck \/ FallSetMotion \/ FallNotifyMotion \/ DetSleep

\* --------------------------------------------------------------- reactor
\* render_get: a plain GET on any of the four resources; the response is Render(r)
Get(r) ==
    /\ server = "listening"
    /\ loopAwake' = TRUE
    /\ UNCHANGED <<clock, cfgVars, cliVars, detPc, detVars, motion, ts, jpeg, label, seq, ver,
                   server, obsv, logVars>>

\* GET with observe=0 on an ObservableResource: the observation is added and the
\* current representation is the first response
Subscribe(r, s) ==
    /\ server = "listening"
    /\ r = watched
    /\ ~obsv[r][s].on
    /\ obsv' = [obsv EXCEPT ![r][s] = [on |-> TRUE, pend |-> FALSE, got |-> Render(r)]]
    /\ loopAwake' = TRUE
    /\ UNCHANGED <<clock, cfgVars, cliVars, detPc, detVars, motion, ts, jpeg, label, seq, ver,
                   server, logVars>>

\* the reactor sends the notification of a triggered observation: render_get is
\* called again and the current representation goes out
Deliver(r, s) ==
    /\ server = "listening"
    /\ loopAwake
    /\ obsv[r][s].on /\ obsv[r][s].pend
    /\ obsv' = [obsv EXCEPT ![r][s] = [on |-> TRUE, pend |-> FALSE, got |-> Render(r)]]
    /\ UNCHANGED <<clock, cfgVars, cliVars, detPc, detVars, motion, ts, jpeg, label, seq, ver,
                   server, loopAwake, logVars>>

\* the notification cannot be delivered (the peer is gone or unreachable): the
\* transport failure removes that observation
DeliverFail(r, s) ==
    /\ server = "listening"
    /\ loopAwake
    /\ obsv[r][s].on /\ obsv[r][s].pend
    /\ obsv' = [obsv EXCEPT ![r][s] = [on |-> FALSE, pend |-> FALSE, got |-> obsv[r][s].got]]
    /\ UNCHANGED <<clock, cfgVars, cliVars, detPc, detVars, motion, ts, jpeg, label, seq, ver,
                   server, loopAwake, logVars>>

\* nothing is ready on the loop: it blocks in select until a datagram arrives
LoopSleep ==
    /\ loopAwake
    /\ \A r \in ObsRes, s \in AllPeers : ~(obsv[r][s].on /\ obsv[r][s].pend)
    /\ loopAwake' = FALSE
    /\ UNCHANGED <<clock, cfgVars, cliVars, detPc, detVars, motion, ts, jpeg, label, seq, ver,
                   server, obsv, logVars>>

\* return Message(code=Code.CHANGED, payload=b"ok"): the response to every PUT
PutResponse(p) == "2.04 Changed"

\* ClassResource.render_put; the response is PutResponse(p)
Put(p) ==
    /\ server = "listening"
    /\ seq["class"] < MaxSeq
    /\ IF Differs(label, Strip(p))
         THEN /\ label' = Strip(p)
              /\ UpdatedState("class")
         ELSE UNCHANGED <<label, seq, obsv>>
    /\ Written("class", label, Strip(p))
    /\ loopAwake' = TRUE
    /\ UNCHANGED <<clock, cfgVars, cliVars, detPc, detVars, motion, ts, jpeg,
                   server, logVars>>

\* mutant: every resource takes remote writes
AcceptsWriteAll(r) == TRUE

\* only ClassResource defines render_put
AcceptsWrite(r) == r = "class"

\* the response to a PUT on r: a resource without render_put answers 4.05
WriteResponse(r, p) ==
    IF AcceptsWrite(r) THEN PutResponse(p) ELSE "4.05 Method Not Allowed"

\* a remote PUT on motion, lastdetection or image; the response is WriteResponse(r, p)
RemoteWrite(r, p) ==
    /\ server = "listening"
    /\ r \in Res \ {"class"}
    /\ motion' = IF AcceptsWrite(r) /\ r = "motion" THEN p ELSE motion
    /\ ts' = IF AcceptsWrite(r) /\ r = "lastdetection" THEN p ELSE ts
    /\ jpeg' = IF AcceptsWrite(r) /\ r = "image" THEN p ELSE jpeg
    /\ loopAwake' = TRUE
    /\ UNCHANGED <<clock, cfgVars, cliVars, detPc, detVars, label, seq, ver,
                   server, obsv, logVars>>

Reactor ==
    \/ \E r \in Res : Get(r)
    \/ \E r \in ObsRes, s \in Peers : Subscribe(r, s)
    \/ \E r \in ObsRes, s \in Peers : Deliver(r, s)
    \/ LoopSleep

\* ------------------------------------------------------------ classifier
\* infer_jpeg: "for now no model is uploaded it will always return unknown";
\* handle_notification sends label.encode('utf-8')
Unknown == <<"u", "n", "k", "n", "o", "w", "n">>
InferJpeg(img) == Unknown

\* main: ctx.request(Message(code=GET, uri=PATH_LAST, observe=0)); the server adds
\* the observation and answers with the current representation
CliObserve ==
    /\ cliPc = "start"
    /\ server = "listening"
    /\ obsv' = [obsv EXCEPT !["lastdetection"][Client] =
                  [on |-> TRUE, pend |-> FALSE, got |-> Render("lastdetection")]]
    /\ net' = Append(net, Render("lastdetection"))
    /\ cliPc' = "requested"
    /\ loopAwake' = TRUE
    /\ UNCHANGED <<clock, cfgVars, detPc, detVars, motion, ts, jpeg, label, seq, ver,
                   server, logVars, tasks, cliBase, labelFrom>>

\* the reactor sends the classifier the notification of its triggered observation
CliDeliver ==
    /\ server = "listening"
    /\ loopAwake
    /\ obsv["lastdetection"][Client].on /\ obsv["lastdetection"][Client].pend
    /\ obsv' = [obsv EXCEPT !["lastdetection"][Client] =
                  [on |-> TRUE, pend |-> FALSE, got |-> Render("lastdetection")]]
    /\ net' = Append(net, Render("lastdetection"))
    /\ UNCHANGED <<clock, cfgVars, detPc, detVars, motion, ts, jpeg, label, seq, ver,
                   server, loopAwake, logVars, cliPc, tasks, cliBase, labelFrom>>

\* main: r = await pr.response  # initial
CliBaseline ==
    /\ cliPc = "requested"
    /\ net # <<>>
    /\ cliBase' = Head(net)
    /\ net' = Tail(net)
    /\ cliPc' = "baseline"
    /\ UNCHANGED <<clock, cfgVars, detPc, detVars, motion, ts, jpeg, label, seq, ver,
                   server, loopAwake, obsv, logVars, tasks, labelFrom>>

\* main: pr.observation.register_callback(cb); register_errback(...); then main
\* waits on a future that is never set
CliRegister ==
    /\ cliPc = "baseline"
    /\ cliPc' = "observing"
    /\ UNCHANGED <<clock, cfgVars, detPc, detVars, motion, ts, jpeg, label, seq, ver,
                   server, loopAwake, obsv, logVars, net, tasks, cliBase, labelFrom>>

\* mutant: the loop also runs between the initial response and the registration
LoopRunsBeforeRegister == cliPc \in {"baseline", "observing"}

\* the classifier's loop runs other callbacks only while main is suspended in an
\* await: there is none between "await pr.response" and register_callback
LoopRuns == cliPc = "observing"

\* a notification reaches the observation: every registered callback is called,
\* cb creates one handle_notification task
CliNotify ==
    /\ LoopRuns
    /\ net # <<>>
    /\ net' = Tail(net)
    /\ tasks' = IF cliPc = "observing"
                  THEN Append(tasks, [n |-> Head(net).seq, pc |-> "get",
                                      img |-> EmptyJpeg, lab |-> <<>>])
                  ELSE tasks
    /\ UNCHANGED <<clock, cfgVars, detPc, detVars, motion, ts, jpeg, label, seq, ver,
                   server, loopAwake, obsv, logVars, cliPc, cliBase, labelFrom>>

\* handle_notification: img = await ctx.request(Message(code=GET, uri=PATH_IMAGE)).response
HGet(i) ==
    /\ tasks[i].pc = "get"
    /\ server = "listening"
    /\ tasks' = [tasks EXCEPT ![i].img = Render("image").val, ![i].pc = "classify"]
    /\ loopAwake' = TRUE
    /\ UNCHANGED <<clock, cfgVars, detPc, detVars, motion, ts, jpeg, label, seq, ver,
                   server, obsv, logVars, cliPc, net, cliBase, labelFrom>>

\* mutant: the exception is swallowed and the task goes on to its PUT
AfterFailureContinue == "put"

\* handle_notification catches nothing: an exception raised by an await ends the task
AfterFailure == "dropped"

\* the request raises (network error)
HGetFail(i) ==
    /\ tasks[i].pc = "get"
    /\ tasks' = [tasks EXCEPT ![i].pc = AfterFailure]
    /\ UNCHANGED <<clock, cfgVars, detPc, detVars, motion, ts, jpeg, label, seq, ver,
                   server, loopAwake, obsv, logVars, cliPc, net, cliBase, labelFrom>>

\* handle_notification: label = await infer_jpeg(img.payload)
HClassify(i) ==
    /\ tasks[i].pc = "classify"
    /\ tasks' = [tasks EXCEPT ![i].lab = InferJpeg(tasks[i].img), ![i].pc = "put"]
    /\ UNCHANGED <<clock, cfgVars, detPc, detVars, motion, ts, jpeg, label, seq, ver,
                   server, loopAwake, obsv, logVars, cliPc, net, cliBase, labelFrom>>

\* the classification function raises
HClassifyFail(i) ==
    /\ tasks[i].pc = "classify"
    /\ tasks' = [tasks EXCEPT ![i].pc = AfterFailure]
    /\ UNCHANGED <<clock, cfgVars, detPc, detVars, motion, ts, jpeg, label, seq, ver,
                   server, loopAwake, obsv, logVars, cliPc, net, cliBase, labelFrom>>

\* handle_notification: await ctx.request(Message(code=PUT, uri=PATH_CLASS,
\* payload=label.encode('utf-8'))).response, served by ClassResource.render_put
HPut(i) ==
    /\ tasks[i].pc = "put"
    /\ server = "listening"
    /\ IF Differs(label, Strip(tasks[i].lab))
         THEN /\ label' = Strip(tasks[i].lab)
              /\ UpdatedState("class")
         ELSE UNCHANGED <<label, seq, obsv>>
    /\ Written("class", label, Strip(tasks[i].lab))
    /\ loopAwake' = TRUE
    /\ tasks' = [tasks EXCEPT ![i].pc = "done"]
    /\ labelFrom' = tasks[i].img
    /\ UNCHANGED <<clock, cfgVars, detPc, detVars, motion, ts, jpeg,
                   server, logVars, cliPc, net, cliBase>>

\* the observation fails (the transport reports an error, the server resets it):
\* the errback registered by main runs, lambda e: print("observe error:", e);
\* the observation is over and main goes on waiting on its future
ObsError ==
    /\ cliPc = "observing"
    /\ cliPc' = "cancelled"
    /\ UNCHANGED <<clock, cfgVars, detPc, detVars, motion, ts, jpeg, label, seq, ver,
                   server, loopAwake, obsv, logVars, net, tasks, cliBase, labelFrom>>

Handler ==
    \/ \E i \in 1..Len(tasks) : HGet(i)
    \/ \E i \in 1..Len(tasks) : HGetFail(i)
    \/ \E i \in 1..Len(tasks) : HClassify(i)
    \/ \E i \in 1..Len(tasks) : HClassifyFail(i)
    \/ \E i \in 1..Len(tasks) : HPut(i)

Classifier ==
    \/ CliObserve \/ CliBaseline \/ CliRegister \/ CliNotify
    \/ Handler

\* ------------------------------------------------------- specifications
\* the whole system: detector thread, reactor, remote peers
Next ==
    \/ TickRun \/ StartServer \/ Detector \/ Reactor
    \/ \E p \in RunPayloads : Put(p)

Spec == Init /\ [][Next]_vars

\* the same, with what the scheduling gives: the detector thread keeps running,
\* time passes, and the reactor runs what is ready on its loop; no request is owed
FairSpec ==
    /\ Spec
    /\ WF_vars(Detector)
    /\ WF_vars(TickRun)
    /\ \A r \in ObsRes, s \in Peers : WF_vars(Deliver(r, s))

\* the detection loop alone, under every configuration
NextDet == Tick \/ StartServer \/ Detector

SpecDet == InitDet /\ [][NextDet]_vars

\* the class resource alone, read and written but not observed, under every payload
NextClass ==
    \/ StartServer
    \/ Get("class")
    \/ LoopSleep
    \/ \E p \in Payloads : Put(p)

SpecClass == InitClass /\ [][NextClass]_vars

\* the detector, the server and the classifier observing lastdetection
InitCli ==
    /\ Start
    /\ cooldown = TicksPerSec - 1
    /\ quiet = TicksPerSec - 1
    /\ watched = "lastdetection"

NextCli ==
    \/ TickRun \/ StartServer \/ Detector
    \/ CliDeliver \/ LoopSleep
    \/ Classifier
    \/ ObsError

SpecCli == InitCli /\ [][NextCli]_vars

\* the same, with what the scheduling gives: both event loops run what is ready,
\* the detector thread keeps running, time passes; no error is owed
FairSpecCli ==
    /\ SpecCli
    /\ WF_vars(Classifier)
    /\ WF_vars(CliDeliver)
    /\ WF_vars(Detector)
    /\ WF_vars(TickRun)

\* the detector and the server with every peer observing motion, deliveries failing
InitObs ==
    /\ Start
    /\ cooldown = TicksPerSec - 1
    /\ quiet = TicksPerSec - 1
    /\ watched = "motion"

NextObs ==
    \/ TickRun \/ StartServer \/ Detector
    \/ \E s \in AllPeers : Subscribe(watched, s)
    \/ \E s \in AllPeers : Deliver(watched, s)
    \/ \E s \in AllPeers : DeliverFail(watched, s)
    \/ LoopSleep

SpecObs == InitObs /\ [][NextObs]_vars

\* the whole system, with remote writes aimed at every resource
NextRemote ==
    \/ Next
    \/ \E r \in Res \ {"class"}, p \in RunPayloads : RemoteWrite(r, p)

SpecRemote == Init /\ [][NextRemote]_vars

\* ------------------------------------------------------------- properties
\* C1: any two consecutive on_rise calls are at least cooldown apart, measured by
\* the frame times (now) at which they were made.
RiseSpacing ==
    \A k \in 1..(Len(riseLog) - 1) : riseLog[k + 1].at - riseLog[k].at >= cooldown

\* two rises exactly cooldown apart, the fall between them having come sooner
RiseSpacingWitness ==
    /\ Len(riseLog) >= 2
    /\ cooldown > 0
    /\ quiet < cooldown
    /\ riseLog[2].at - riseLog[1].at = cooldown

\* C2: while ACTIVE, on_fall is called on a frame if and only if that frame is at
\* least quiet after the latest frame with motion_now (in either state), and only
\* after an on_rise.
FallTiming ==
    /\ detPc \in {"on_fall", "notify_fall"} => (riseLog # <<>> /\ now - seenLog >= quiet)
    /\ (detPc = "sleep" /\ motion_on) => now - seenLog < quiet

\* a fall exactly quiet after a motion frame that came later than the rise
FallTimingWitness ==
    /\ detPc = "on_fall"
    /\ quiet > 0
    /\ now - seenLog = quiet
    /\ seenLog > riseLog[Len(riseLog)].at

\* C3: whenever lastDetection holds the timestamp written by rise k, image holds
\* the snapshot of rise k or of a later rise, never of an earlier one.
SnapshotNotOlderThanLastDetection ==
    \A k \in 1..Len(riseLog) :
        (riseLog[k].ts # EmptyTs /\ riseLog[k].ts = ts) => jpeg >= k

\* C4: a GET or a notification always carries a value together with the sequence
\* number of that value: whenever the reactor can render r, the announced
\* sequence equals the number of values r has held.
ConsistentPair ==
    \A r \in ObsRes :
        (ENABLED Get(r) \/ \E s \in Peers : ENABLED Deliver(r, s)) => Render(r).seq = ver[r]

\* C5: the sequence of a resource never counts more than its value changes, a
\* triggered notification always has a sequence the peer has not received, and a
\* PUT that leaves the label as it is still answers 2.04 Changed.
IdempotentSet ==
    /\ \A r \in ObsRes : seq[r] <= ver[r]
    /\ \A r \in ObsRes, s \in Peers : obsv[r][s].pend => obsv[r][s].got.seq < seq[r]
    /\ \A p \in RunPayloads :
          (ENABLED Put(p) /\ Strip(p) = label) => PutResponse(p) = "2.04 Changed"

\* two rises stamped with the same second: set_now was called twice with one value,
\* and an observer is there to be notified
IdempotentSetWitness ==
    /\ Len(riseLog) = 2
    /\ riseLog[1].ts = riseLog[2].ts
    /\ riseLog[2].ts # EmptyTs
    /\ detPc = "sleep"
    /\ seq["lastdetection"] = 1
    /\ \E s \in Peers : obsv["lastdetection"][s].on /\ obsv["lastdetection"][s].got.seq = 1

\* a notification carries a sequence greater than any the peer has received
DeliverIncreasing ==
    \A r \in ObsRes, s \in Peers :
        Deliver(r, s) => obsv'[r][s].got.seq > obsv[r][s].got.seq

\* the first response of an observation is the current representation
SubscribeGetsCurrent ==
    \A r \in ObsRes, s \in Peers :
        Subscribe(r, s) => obsv'[r][s].got = Render(r)

\* C6: an observer first receives the current value, then notifications with
\* strictly increasing sequences, and again and again holds the latest value.
ObservationDelivery ==
    /\ [][SubscribeGetsCurrent /\ DeliverIncreasing]_vars
    /\ \A r \in ObsRes, s \in Peers :
          []<>(obsv[r][s].on => obsv[r][s].got.val = ValueOf(r))

\* l is p without its leading and trailing whitespace
IsTrimOf(l, p) ==
    \E i \in 0..Len(p), j \in 0..Len(p) :
        /\ i + j <= Len(p)
        /\ l = SubSeq(p, i + 1, Len(p) - j)
        /\ \A k \in 1..i : p[k] \in WhiteSpace
        /\ \A k \in (Len(p) - j + 1)..Len(p) : p[k] \in WhiteSpace
        /\ l # <<>> => (l[1] \notin WhiteSpace /\ l[Len(l)] \notin WhiteSpace)

\* C7: a PUT stores the payload without its surrounding whitespace; when that
\* differs from the label before, the GET that follows returns it with the
\* sequence of class incremented by exactly one.
PutStoresTrimmed ==
    [][\A p \in Payloads :
          Put(p) => /\ IsTrimOf(label', p)
                    /\ ~IsTrimOf(label, p) =>
                          Render("class")' = [val |-> label', seq |-> seq["class"] + 1]]_vars

\* the label "p" stored by the first PUT that changed class
PutStoresTrimmedWitness ==
    /\ label = <<"p">>
    /\ seq["class"] = 1
    /\ ver["class"] = 1

\* no byte of p is one that UTF-8 never uses
ValidUtf8(p) == \A k \in 1..Len(p) : p[k] # BadByte

\* C8: a PUT whose payload is not valid UTF-8 is answered with an error, leaves
\* the label as it is and triggers no notification.
MalformedPutRejected ==
    [][\A p \in Payloads :
          (Put(p) /\ ~ValidUtf8(p)) =>
              /\ PutResponse(p) # "2.04 Changed"
              /\ label' = label
              /\ seq' = seq
              /\ obsv' = obsv]_vars

\* a request handled by the reactor
Served ==
    \/ \E r \in Res : Get(r)
    \/ \E r \in ObsRes, s \in Peers : Subscribe(r, s)
    \/ \E p \in RunPayloads : Put(p)

\* C9: once the camera could not be opened, the server serves no request.
OpenFailureIsFatal ==
    [][detPc = "open_failed" => ~Served]_vars

\* C10: a failed read ends the loop; after that the detector calls neither
\* on_rise nor on_fall, motion, lastDetection and image keep their values, and
\* the server goes on answering.
ReadFailureEndsLoop ==
    /\ [][DetReadFail => detPc' = "done"]_vars
    /\ [][detPc = "done" =>
             /\ detPc' = "done"
             /\ <<motion, ts, jpeg>>' = <<motion, ts, jpeg>>
             /\ <<motion_on, riseLog>>' = <<motion_on, riseLog>>
             /\ server' = "listening"]_vars
    /\ [](detPc = "done" =>
             /\ \A r \in Res : ENABLED Get(r)
             /\ seq["class"] < MaxSeq => \A p \in RunPayloads : ENABLED Put(p)
             /\ \A s \in Peers : ~obsv[watched][s].on => ENABLED Subscribe(watched, s))

\* the loop ended while ACTIVE: motion stays "true"
ReadFailureEndsLoopWitness ==
    /\ detPc = "done"
    /\ motion_on
    /\ motion = "true"

\* the steps of one handle_notification task, in the order of its statements
TaskSteps ==
    {<<"get", "classify">>, <<"classify", "put">>, <<"put", "done">>,
     <<"get", "dropped">>, <<"classify", "dropped">>}

\* a response leaves the network either as the initial response of main or into
\* exactly one new task that starts with the GET of image
ConsumedOnce ==
    Len(net') < Len(net) =>
        \/ cliPc = "requested" /\ cliBase' = Head(net) /\ tasks' = tasks
        \/ tasks' = Append(tasks, [n |-> Head(net).seq, pc |-> "get",
                                   img |-> EmptyJpeg, lab |-> <<>>])

\* a task only moves GET image -> classify -> PUT class, and writes class on its PUT only
RoundTripOrder ==
    \A i \in 1..Len(tasks) :
        /\ tasks'[i].pc # tasks[i].pc => <<tasks[i].pc, tasks'[i].pc>> \in TaskSteps
        /\ tasks'[i].n = tasks[i].n

\* C11: the initial response on lastdetection starts nothing; afterwards every
\* notification starts exactly one task, for a sequence above the baseline and
\* above the earlier ones, which goes GET image, classify, PUT class; no response
\* is taken from the network without a task, whenever it arrived.
BaselineThenRoundTrips ==
    /\ [](cliPc \in {"start", "requested", "baseline"} => (tasks = <<>> /\ ver["class"] = 0))
    /\ [](\A i \in 1..Len(tasks) :
             /\ tasks[i].n > cliBase.seq
             /\ \A j \in 1..(i - 1) : tasks[j].n < tasks[i].n
             /\ tasks[i].pc \in {"put", "done"} => tasks[i].lab = InferJpeg(tasks[i].img))
    /\ [][ConsumedOnce /\ RoundTripOrder]_vars
    /\ [][label' # label => \E i \in 1..Len(tasks) :
                               tasks[i].pc = "put" /\ tasks'[i].pc = "done"]_vars

\* two notifications, both handled to the end, the first fetched after the first rise
BaselineThenRoundTripsWitness ==
    /\ Len(tasks) = 2
    /\ \A i \in 1..2 : tasks[i].pc = "done" /\ tasks[i].img > 0
    /\ cliBase.seq = 0
    /\ label = Unknown

\* the failing step of task i leaves everything but that task as it was
FailureIsLocal(i) ==
    (HGetFail(i) \/ HClassifyFail(i)) =>
        /\ tasks'[i].pc = "dropped"
        /\ \A j \in 1..Len(tasks) : j # i => tasks'[j] = tasks[j]
        /\ <<label, seq, obsv, net, cliPc, labelFrom>>' = <<label, seq, obsv, net, cliPc, labelFrom>>

\* C12: a task whose GET of image or whose classification fails is dropped for
\* good: it issues no PUT and class keeps its value; every other task, and the
\* receipt of later notifications, goes on as before.
FailedHandlingDropped ==
    /\ [][\A i \in 1..Len(tasks) : FailureIsLocal(i)]_vars
    /\ [][\A i \in 1..Len(tasks) :
             tasks[i].pc = "dropped" => (tasks'[i] = tasks[i] /\ Len(tasks') >= Len(tasks))]_vars
    /\ [](\A i \in 1..Len(tasks) :
             /\ tasks[i].pc = "dropped" => tasks[i].lab = <<>>
             /\ tasks[i].pc = "get" => ENABLED HGet(i)
             /\ tasks[i].pc = "classify" => ENABLED HClassify(i)
             /\ tasks[i].pc = "put" => ENABLED HPut(i))
    /\ []((cliPc = "observing" /\ net # <<>>) => ENABLED CliNotify)
    /\ []((\A i \in 1..Len(tasks) : tasks[i].pc = "dropped") => ver["class"] = 0)

\* the first notification was dropped at its fetch, the second one wrote class
FailedHandlingDroppedWitness ==
    /\ Len(tasks) = 2
    /\ tasks[1].pc = "dropped" /\ tasks[1].img = EmptyJpeg
    /\ tasks[2].pc = "done"
    /\ label = Unknown

\* C13: after an error on its observation the classifier observes lastdetection again.
ObservationReestablished ==
    [](cliPc = "cancelled" => <>(cliPc = "observing"))

\* a failed delivery removes that observation and touches no other
FailureRemovesOnlyThatPeer ==
    \A r \in ObsRes, s \in AllPeers :
        DeliverFail(r, s) =>
            /\ ~obsv'[r][s].on
            /\ \A t \in AllPeers \ {s} : obsv'[r][t] = obsv[r][t]
            /\ <<motion, ts, jpeg, seq, detPc, motion_on>>' = <<motion, ts, jpeg, seq, detPc, motion_on>>

\* the detector's step at each point of on_rise / on_fall is enabled whatever the observers do
ProducerNeverWaits ==
    /\ detPc = "set_now" => ENABLED RiseSetNow
    /\ detPc = "notify_last" => ENABLED RiseNotifyLast
    /\ detPc = "set_motion" => ENABLED RiseSetMotion
    /\ detPc = "notify_rise" => ENABLED RiseNotifyMotion
    /\ detPc = "on_fall" => ENABLED FallSetMotion
    /\ detPc = "notify_fall" => ENABLED FallNotifyMotion

RemoteRequest ==
    \/ \E r \in Res : Get(r)
    \/ \E r \in ObsRes, s \in Peers : Subscribe(r, s)
    \/ \E p \in RunPayloads : Put(p)
    \/ \E r \in Res \ {"class"}, p \in RunPayloads : RemoteWrite(r, p)

\* C15: no remote request changes motion, lastdetection or image, which change
\* only in a step of on_rise / on_fall; a PUT on them is refused; a change of
\* image triggers no observation and moves no sequence.
OnlyClassWritable ==
    /\ [][RemoteRequest => <<motion, ts, jpeg>>' = <<motion, ts, jpeg>>]_vars
    /\ [][<<motion, ts, jpeg>>' # <<motion, ts, jpeg>> =>
             (RiseSetJpeg \/ RiseSetNow \/ RiseSetMotion \/ FallSetMotion)]_vars
    /\ [][jpeg' # jpeg => (seq' = seq /\ obsv' = obsv)]_vars
    /\ [](\A r \in Res \ {"class"}, p \in RunPayloads :
             WriteResponse(r, p) = "4.05 Method Not Allowed")

\* a rise has set all three resources and a remote write on motion is being handled
OnlyClassWritableWitness ==
    /\ motion = "true" /\ ts # EmptyTs /\ jpeg = 1
    /\ label # EmptyLabel
    /\ ENABLED RemoteWrite("motion", <<"p">>)

\* C16: as long as no frame has had motion_now, on_rise and on_fall have not been
\* called, the detector is QUIET and motion is "false".
NoMotionNoEdges ==
    seenLog = 0 =>
        /\ riseLog = <<>>
        /\ ~motion_on
        /\ motion = "false"
        /\ detPc \in {"unstarted", "open", "open_failed", "read", "fall_check", "sleep", "done"}

\* frames without motion were processed up to the end of the run
NoMotionNoEdgesWitness ==
    /\ seenLog = 0
    /\ detPc = "sleep"
    /\ now = Epoch + MaxTime
    /\ quiet = 0

\* on_rise is entered in this step
RiseStep == Len(riseLog') = Len(riseLog) + 1

\* on_fall is entered in this step
FallStep == detPc' = "on_fall" /\ detPc # "on_fall"

\* C17: on_rise is called only in QUIET and makes the detector ACTIVE, on_fall only
\* in ACTIVE and makes it QUIET, the state changes in no other way and starts
\* QUIET: rises and falls alternate, a rise first, and no rise comes while ACTIVE.
EdgesAlternate ==
    /\ [](riseLog = <<>> => ~motion_on)
    /\ [][RiseStep => (~motion_on /\ motion_on')]_vars
    /\ [][FallStep => (motion_on /\ ~motion_on')]_vars
    /\ [][motion_on' # motion_on => (RiseStep \/ FallStep)]_vars

\* one episode of motion still going on after more than the cooldown: one rise
EdgesAlternateWitness ==
    /\ Len(riseLog) = 1
    /\ motion_on /\ motion_now
    /\ detPc = "sleep"
    /\ cooldown > 0
    /\ now - riseLog[1].at > cooldown

\* C18: the timestamps that set_now wrote for two consecutive rises differ, so
\* every rise changes lastdetection.
EveryRiseChangesLastDetection ==
    \A k \in 2..Len(riseLog) :
        riseLog[k].ts # EmptyTs => riseLog[k].ts # riseLog[k - 1].ts

\* C20: at the end of every iteration motion is "true" exactly when the detector
\* is ACTIVE, and with quiet > 0 on_fall is never entered on a frame with
\* motion_now, so never in the iteration of a rise.
MotionMirrorsState ==
    /\ detPc = "sleep" => (motion = "true" <=> motion_on)
    /\ (quiet > 0 /\ detPc \in {"on_fall", "notify_fall"}) =>
          (~motion_now /\ riseLog[Len(riseLog)].at < now)

\* after a rise and a later fall the detector is QUIET and motion is "false" again
MotionMirrorsStateWitness ==
    /\ quiet > 0
    /\ detPc = "sleep"
    /\ Len(riseLog) = 1
    /\ ~motion_on
    /\ motion = "false"
    /\ ver["motion"] = 2

\* every task has ended and nothing is in flight to the classifier
AllHandled ==
    /\ net = <<>>
    /\ \A i \in 1..Len(tasks) : tasks[i].pc \in {"done", "dropped"}

\* C19: a task computes its label from the one image it fetched, and once every
\* task has ended the label in class is the one written for the most recent
\* snapshot that any task fetched, not for an earlier one.
NoStaleWrite ==
    /\ \A i \in 1..Len(tasks) :
          tasks[i].pc \in {"put", "done"} => tasks[i].lab = InferJpeg(tasks[i].img)
    /\ AllHandled =>
          \A i \in 1..Len(tasks) : tasks[i].pc = "done" => labelFrom >= tasks[i].img

====
